---------------------------- MODULE Spec2Model ----------------------------
(***************************************************************************)
(* Model of scraper.py: the MSAMB (Primary) pass over all crops followed   *)
(* by the CommodityOnline (Secondary) pass over all crops, both writing    *)
(* into final_data["crops"][id]["local"/"outstate"].                       *)
(*                                                                         *)
(* Text is modelled as a sequence of characters (one-character strings).   *)
(* A Devanagari code unit is written as a lower/upper-case transliterated  *)
(* token ("pu", "Ne", ...); the rupee sign is the token "Rs".  Maps        *)
(* (Python dicts) are functions whose DOMAIN is the key set.               *)
(***************************************************************************)
EXTENDS Integers, Sequences, FiniteSets, TLC

(***************************************************************************)
(* Bounds of the model                                                     *)
(***************************************************************************)
MaxMsambRows == 3

MaxCoRows == 2

MaxOtherRows == 2

(***************************************************************************)
(* Text helpers: str.strip, str.replace, str.lower, the `in` operator      *)
(***************************************************************************)
Digits == {"0", "1", "2", "3", "4", "5", "6", "7", "8", "9"}

DigitVal(ch) ==
    CASE ch = "0" -> 0 [] ch = "1" -> 1 [] ch = "2" -> 2 [] ch = "3" -> 3
      [] ch = "4" -> 4 [] ch = "5" -> 5 [] ch = "6" -> 6 [] ch = "7" -> 7
      [] ch = "8" -> 8 [] ch = "9" -> 9

RECURSIVE Strip(_)
Strip(s) ==
    IF s = <<>> THEN s
    ELSE IF Head(s) = " " THEN Strip(Tail(s))
    ELSE IF s[Len(s)] = " " THEN Strip(SubSeq(s, 1, Len(s) - 1))
    ELSE s

\* s.replace(ch, '')
Remove(s, ch) == SelectSeq(s, LAMBDA x : x # ch)

LowerChar(ch) ==
    CASE ch = "A" -> "a" [] ch = "G" -> "g" [] ch = "H" -> "h" [] ch = "I" -> "i"
      [] ch = "M" -> "m" [] ch = "N" -> "n" [] ch = "P" -> "p" [] ch = "R" -> "r"
      [] ch = "S" -> "s" [] ch = "C" -> "c"
      [] OTHER -> ch

\* str.lower()
Lower(s) == [i \in 1..Len(s) |-> LowerChar(s[i])]

\* `t in s` for two texts: t occurs as a contiguous substring of s
Contains(t, s) ==
    \E i \in 0..(Len(s) - Len(t)) : SubSeq(s, i + 1, i + Len(t)) = t

RECURSIVE ParseDigits(_, _)
ParseDigits(s, acc) ==
    IF s = <<>> THEN acc ELSE ParseDigits(Tail(s), acc * 10 + DigitVal(Head(s)))

AllDigits(s) == Len(s) >= 1 /\ \A i \in 1..Len(s) : s[i] \in Digits

\* what int() accepts (surrounding blanks, optional sign, then digits)
IsIntLiteral(s) ==
    LET t == Strip(s) IN
      /\ Len(t) >= 1
      /\ IF t[1] \in {"+", "-"} THEN AllDigits(Tail(t)) ELSE AllDigits(t)

IntOf(s) ==
    LET t == Strip(s) IN
      IF t[1] = "-" THEN 0 - ParseDigits(Tail(t), 0)
      ELSE IF t[1] = "+" THEN ParseDigits(Tail(t), 0)
      ELSE ParseDigits(t, 0)

(***************************************************************************)
(* Utility functions                                                       *)
(***************************************************************************)
clean_price(text) ==
    LET s == Strip(Remove(text, ",")) IN
      IF IsIntLiteral(s) THEN IntOf(s) ELSE 0

\* re.search(r'([\d,]+)', text): the leftmost, longest run of digits/commas;
\* <<>> stands for "no match"
RECURSIVE RunFrom(_)
RunFrom(s) ==
    IF s # <<>> /\ Head(s) \in Digits \cup {","}
    THEN <<Head(s)>> \o RunFrom(Tail(s))
    ELSE <<>>

RECURSIVE FirstRun(_)
FirstRun(s) ==
    IF s = <<>> THEN <<>>
    ELSE IF Head(s) \in Digits \cup {","} THEN RunFrom(s)
    ELSE FirstRun(Tail(s))

\* extract_co_price raises ValueError when the matched run holds no digit:
\* int('') after the commas are removed
extract_co_price_raises(text) ==
    LET m == FirstRun(text) IN
      m # <<>> /\ ~IsIntLiteral(Remove(m, ","))

extract_co_price(text) ==
    LET m == FirstRun(text) IN
      IF m = <<>> THEN 0 ELSE IntOf(Remove(m, ","))


(***************************************************************************)
(* Configuration.  CROPS keeps three entries of the source list (two       *)
(* tracked by MSAMB, one not); LOCAL_MARKETS and market_name_map keep the  *)
(* entries for Rahata and Pune (and the alias-only Nashik), each in source *)
(* order.                                                                  *)
(***************************************************************************)
CROPS ==
    << [id |-> "onion", msamb_val |-> "08035"],
       [id |-> "wheat", msamb_val |-> "02009"],
       [id |-> "silk-cocoonbh-double-hybr", msamb_val |-> ""] >>

CropIds == {CROPS[i].id : i \in 1..Len(CROPS)}

RAHATA == <<"ra", "ha", "ta">>

PUNE == <<"pu", "Ne">>

NASHIK == <<"na", "shi", "k">>

LOCAL_MARKETS == <<RAHATA, PUNE>>

MAHARASHTRA_VARIATIONS ==
    << <<"m", "a", "h", "a", "r", "a", "s", "h", "t", "r", "a">>,
       <<"m", "a", "h", "a", "r", "a", "s", "t", "r", "a">>,
       <<"m", "h">> >>

\* an ordered dict: the sequence of (key, value) pairs in insertion order
market_name_map ==
    << << <<"n", "a", "s", "h", "i", "k">>, NASHIK >>,
       << <<"p", "u", "n", "e">>, PUNE >>,
       << <<"r", "a", "h", "a", "t", "a">>, RAHATA >> >>

NA == <<"N", "/", "A">>

(***************************************************************************)
(* Page content: the rows a page may hold.  An MSAMB row is its list of    *)
(* <td> texts plus whether the first cell bears a colspan attribute; a     *)
(* CommodityOnline row is its list of <td> texts.                          *)
(***************************************************************************)
V_Red == <<"R", "e", "d">>

V_Local == <<"L", "o", "c", "a", "l">>

MsambDataRow(market, variety, arrival, min, max, modal) ==
    [colspan |-> FALSE,
     cols |-> <<market, variety, <<"Q">>, arrival, min, max, modal>>]

MsambDateRow(text) == [colspan |-> TRUE, cols |-> <<text>>]

MK_PuneMandai == PUNE \o <<"-", " ", "ma", "nD", "I">>

MK_PuneRahata == PUNE \o <<"-">> \o RAHATA

DateText1 == <<" ", "D", "1", " ">>

DateText2 == <<"D", "2">>

T_120 == <<"1", "2", "0">>

T_1500 == <<"1", "5", "0", "0">>

T_1800 == <<"1", "8", "0", "0">>

T_2000 == <<"2", "0", "0", "0">>

MR_Date1 == MsambDateRow(DateText1)

MR_Date2 == MsambDateRow(DateText2)

MR_OneCell == [colspan |-> FALSE, cols |-> << DateText2 >>]

MR_ThreeCells == [colspan |-> TRUE, cols |-> << MK_PuneMandai, V_Red, T_1800 >>]

MR_PuneA == MsambDataRow(MK_PuneMandai, V_Red, T_120, T_1500, T_2000, T_1800)

MR_PuneB ==
    MsambDataRow(MK_PuneMandai, V_Local, <<>>, <<"2", ",", "0", "0", "0">>,
                 <<"3", ",", "0", "0", "0">>, <<" ", "2", ",", "5", "0", "0", " ">>)

MR_PuneNoPrice == MsambDataRow(MK_PuneMandai, V_Red, T_120, T_1500, T_2000, NA)

MR_PuneRahataB ==
    MsambDataRow(MK_PuneRahata, V_Local, T_120, NA, <<"-", "5">>,
                 <<"2", ",", "5", "0", "0">>)

MR_NashikA == MsambDataRow(NASHIK, V_Red, T_120, T_1500, T_2000, T_1800)

\* the rows the MSAMB page of a crop may hold
MsambPage(id) ==
    IF id = "onion"
    THEN {MR_Date1, MR_Date2, MR_PuneA, MR_PuneB, MR_PuneNoPrice}
    ELSE {MR_OneCell, MR_ThreeCells, MR_PuneRahataB, MR_NashikA}

CoDataRow(variety, state, market, price) ==
    << <<"c">>, <<"d">>, variety, state, <<>>, market, <<>>, <<>>, price >>

ST_Maharashtra == <<"M", "a", "h", "a", "r", "a", "s", "h", "t", "r", "a">>

ST_MH == <<"M", "H">>

ST_Goa == <<"G", "o", "a">>

MN_Pune == <<"P", "u", "n", "e">>

MN_PuneAPMC == <<"P", "u", "n", "e", " ", "A", "P", "M", "C">>

MN_RahataPune == <<"R", "a", "h", "a", "t", "a", "-", "P", "u", "n", "e">>

MN_Indore == <<"I", "n", "d", "o", "r", "e">>

PR_Rs2500 == <<"Rs", " ", "2", ",", "5", "0", "0">>

PR_NoDigit == <<"Rs", " ", ",", " ", "5", "0", "0">>

CR_MahPune == CoDataRow(V_Red, ST_Maharashtra, MN_Pune, PR_Rs2500)

CR_MahPuneAPMC == CoDataRow(V_Local, ST_Maharashtra, MN_PuneAPMC, T_1800)

CR_MahPuneNoPrice == CoDataRow(V_Red, ST_Maharashtra, MN_Pune, NA)

CR_MahRahataPune == CoDataRow(V_Local, ST_Maharashtra, MN_RahataPune, T_1800)

CR_MahIndore == CoDataRow(V_Red, ST_Maharashtra, MN_Indore, T_1800)

CR_MHPune == CoDataRow(V_Red, ST_MH, MN_Pune, PR_Rs2500)

CR_GoaPune == CoDataRow(V_Local, ST_Goa, MN_Pune, T_1800)

CR_GoaPuneB == CoDataRow(V_Red, ST_Goa, MN_Pune, PR_Rs2500)

CR_GoaIndore == CoDataRow(V_Red, ST_Goa, MN_Indore, PR_Rs2500)

CR_GoaNoDigit == CoDataRow(V_Red, ST_Goa, MN_Indore, PR_NoDigit)

CR_Short == SubSeq(CR_GoaIndore, 1, 8)

\* the rows the CommodityOnline page of a crop may hold
CoPage(id) ==
    IF id = "onion"
    THEN {CR_MahPune, CR_MahPuneAPMC, CR_MahPuneNoPrice, CR_MahRahataPune,
          CR_GoaPune, CR_GoaPuneB, CR_GoaNoDigit}
    ELSE IF id = "wheat"
    THEN {CR_MahRahataPune, CR_GoaIndore, CR_MHPune, CR_Short}
    ELSE {CR_MahPune, CR_MahRahataPune, CR_MahIndore, CR_GoaIndore, CR_MHPune}

\* the most rows a page of a crop holds
MsambMaxRows(id) == IF id = "onion" THEN MaxMsambRows ELSE MaxOtherRows

CoMaxRows(id) == IF id = "wheat" THEN MaxOtherRows ELSE MaxCoRows

(***************************************************************************)
(* State                                                                   *)
(***************************************************************************)
VARIABLES
    final_data,             \* final_data["crops"]: crop id -> [local, outstate]
    phase,                  \* "msamb" (PART 1), "co" (PART 2), "done"
    ci,                     \* index in CROPS of the crop of the running loop
    pc,                     \* "crop": top of the loop body; "rows": in its row loop
    scanned,                \* the rows of the current page consumed so far
    current_trade_date,
    missing_local_markets,
    processed_markets,
    last_outcome            \* how the latest crop/source ended (the printed log)

vars ==
    << final_data, phase, ci, pc, scanned, current_trade_date,
       missing_local_markets, processed_markets, last_outcome >>

crop == CROPS[ci]

EmptyMap == [k \in {} |-> 0]

\* d[key] = value on a dict
Put(d, key, value) == (key :> value) @@ d

(***************************************************************************)
(* PART 1: MSAMB                                                           *)
(***************************************************************************)
\* lines 194-199
InitCrop(data, c) ==
    Put(data, c.id, [local |-> EmptyMap, outstate |-> EmptyMap])

\* MsambIsDateRow without the colspan test of line 230
MsambIsDateRow_AnyOneCell(row) == Len(row.cols) = 1

\* lines 230, 236
MsambIsDateRow(row) == Len(row.cols) = 1 /\ row.colspan

MsambIsDataRow(row) == ~MsambIsDateRow(row) /\ Len(row.cols) = 7

\* line 231
MsambDateText(row) == Strip(row.cols[1])

\* lines 248-249: the first target with `target in market_name and avg_p > 0`,
\* as a list of at most one element
MsambTarget(market_name, avg_p) ==
    LET hits == {i \in 1..Len(LOCAL_MARKETS) :
                    Contains(LOCAL_MARKETS[i], market_name) /\ avg_p > 0}
    IN  IF hits = {} THEN <<>>
        ELSE << LOCAL_MARKETS[CHOOSE i \in hits : \A j \in hits : i <= j] >>

\* MsambRecord with the Min and Max columns taken for one another
MsambRecord_SwapMinMax(row, trade_date) ==
    [modal_price |-> clean_price(Strip(row.cols[7])),
     min_price   |-> clean_price(Strip(row.cols[6])),
     max_price   |-> clean_price(Strip(row.cols[5])),
     arrival     |-> clean_price(Strip(row.cols[4])),
     variety     |-> Strip(row.cols[2]),
     trade_date  |-> trade_date]

\* lines 238-245, 252-259
MsambRecord(row, trade_date) ==
    [modal_price |-> clean_price(Strip(row.cols[7])),
     min_price   |-> clean_price(Strip(row.cols[5])),
     max_price   |-> clean_price(Strip(row.cols[6])),
     arrival     |-> clean_price(Strip(row.cols[4])),
     variety     |-> Strip(row.cols[2]),
     trade_date  |-> trade_date]

\* lines 251-259
MsambStore(local, target, rec) ==
    IF target \in DOMAIN local THEN local ELSE Put(local, target, rec)

\* MsambLocalAfter without the `break` of line 261: every target in the
\* name is tried
MsambLocalAfter_NoBreak(local, row, trade_date) ==
    LET market_name == Strip(row.cols[1])
        rec == MsambRecord(row, trade_date)
        hits == {LOCAL_MARKETS[i] : i \in {j \in 1..Len(LOCAL_MARKETS) :
                    /\ Contains(LOCAL_MARKETS[j], market_name)
                    /\ rec.modal_price > 0
                    /\ LOCAL_MARKETS[j] \notin DOMAIN local}}
    IN  [m \in DOMAIN local \cup hits |-> IF m \in DOMAIN local THEN local[m] ELSE rec]

\* lines 236-261: the `local` map after a data row
MsambLocalAfter(local, row, trade_date) ==
    LET market_name == Strip(row.cols[1])
        rec == MsambRecord(row, trade_date)
        hit == MsambTarget(market_name, rec.modal_price)
    IN  IF hit = <<>> THEN local ELSE MsambStore(local, hit[1], rec)

\* line 221 left out: the date of the crop before stays
MsambInitialDate_Carried == current_trade_date

\* line 221
MsambInitialDate == NA

\* NextCrop of a single loop over the crops, both sources inside it
NextCrop_PerCrop ==
    IF phase = "msamb"
    THEN /\ ci' = ci
         /\ phase' = "co"
    ELSE IF ci < Len(CROPS)
    THEN /\ ci' = ci + 1
         /\ phase' = "msamb"
    ELSE /\ ci' = 1
         /\ phase' = "done"

\* the loop statement: the next crop, or PART 2 after the last one
NextCrop ==
    IF ci < Len(CROPS)
    THEN /\ ci' = ci + 1
         /\ phase' = phase
    ELSE /\ ci' = 1
         /\ phase' = IF phase = "msamb" THEN "co" ELSE "done"

\* MsambSkipCrop without the `continue` of line 204: the page is opened
MsambSkipCrop_Scans ==
    /\ phase = "msamb" /\ pc = "crop"
    /\ crop.msamb_val = ""
    /\ final_data' = InitCrop(final_data, crop)
    /\ current_trade_date' = MsambInitialDate
    /\ scanned' = <<>>
    /\ pc' = "rows"
    /\ UNCHANGED << phase, ci, missing_local_markets, processed_markets,
                    last_outcome >>

\* lines 194-204: a crop MSAMB does not track
MsambSkipCrop ==
    /\ phase = "msamb" /\ pc = "crop"
    /\ crop.msamb_val = ""
    /\ final_data' = InitCrop(final_data, crop)
    /\ last_outcome' = "skipped"
    /\ NextCrop
    /\ UNCHANGED << pc, scanned, current_trade_date, missing_local_markets,
                    processed_markets >>

\* lines 194-219, 263-265: the page cannot be had (an error of the browser
\* calls, caught by the crop's except), or holds no table
MsambNoPage ==
    /\ phase = "msamb" /\ pc = "crop"
    /\ crop.msamb_val # ""
    /\ final_data' = InitCrop(final_data, crop)
    /\ \E how \in {"error", "no_table"} : last_outcome' = how
    /\ NextCrop
    /\ UNCHANGED << pc, scanned, current_trade_date, missing_local_markets,
                    processed_markets >>

\* lines 194-222: the page is had and holds the table
MsambOpenPage ==
    /\ phase = "msamb" /\ pc = "crop"
    /\ crop.msamb_val # ""
    /\ final_data' = InitCrop(final_data, crop)
    /\ current_trade_date' = MsambInitialDate
    /\ scanned' = <<>>
    /\ pc' = "rows"
    /\ UNCHANGED << phase, ci, missing_local_markets, processed_markets,
                    last_outcome >>

\* lines 225-261: one iteration of the row loop
MsambRow ==
    /\ phase = "msamb" /\ pc = "rows"
    /\ Len(scanned) < MsambMaxRows(crop.id)
    /\ \E row \in MsambPage(crop.id) :
         /\ scanned' = Append(scanned, row)
         /\ current_trade_date' =
              IF MsambIsDateRow(row) THEN MsambDateText(row) ELSE current_trade_date
         /\ final_data' =
              IF MsambIsDataRow(row)
              THEN [final_data EXCEPT ![crop.id].local =
                       MsambLocalAfter(@, row, current_trade_date)]
              ELSE final_data
    /\ UNCHANGED << phase, ci, pc, missing_local_markets, processed_markets,
                    last_outcome >>

\* line 225: the rows are exhausted
MsambRowsEnd ==
    /\ phase = "msamb" /\ pc = "rows"
    /\ pc' = "crop"
    /\ scanned' = <<>>
    /\ last_outcome' = "scanned"
    /\ NextCrop
    /\ UNCHANGED << final_data, current_trade_date, missing_local_markets,
                    processed_markets >>

(***************************************************************************)
(* PART 2: CommodityOnline                                                 *)
(***************************************************************************)
\* MissingAfterMsamb without the `not in local` filter of line 320
MissingAfterMsamb_All(c, data) ==
    IF c.msamb_val # "" THEN LOCAL_MARKETS ELSE <<>>

\* lines 318-322
MissingAfterMsamb(c, data) ==
    IF c.msamb_val # ""
    THEN SelectSeq(LOCAL_MARKETS, LAMBDA m : m \notin DOMAIN data[c.id].local)
    ELSE <<>>

\* line 357
CoIsDataRow(cols) == Len(cols) >= 9

\* lines 359-362: get_text(strip=True) of the cells of interest
CoState(cols) == Strip(cols[4])

CoMarketName(cols) == Strip(cols[6])

CoVariety(cols) == Strip(cols[3])

CoPriceText(cols) == Strip(cols[9])

\* line 365 without the price test
CoSkipRow_NoPriceTest(price, market_name, processed) ==
    market_name \in processed

\* line 365
CoSkipRow(price, market_name, processed) ==
    price <= 0 \/ market_name \in processed

\* lines 369-371
Normalize(market_name) == Remove(Remove(Lower(market_name), " "), "-")

\* lines 377, 402: the literal the first two cases test the state against
LIT_maharashtra == <<"m", "a", "h", "a", "r", "a", "s", "h", "t", "r", "a">>

InMaharashtra(state_lower) == Contains(LIT_maharashtra, state_lower)

\* line 429
is_maharashtra(state_lower) ==
    \E i \in 1..Len(MAHARASHTRA_VARIATIONS) :
        Contains(MAHARASHTRA_VARIATIONS[i], state_lower)

\* lines 379-383: the value of the first alias, in table order, whose key is
\* in the normalized name; the name itself when there is none
TranslateMarket(market_name) ==
    LET hits == {i \in 1..Len(market_name_map) :
                    Contains(market_name_map[i][1], Normalize(market_name))}
    IN  IF hits = {} THEN market_name
        ELSE market_name_map[CHOOSE i \in hits : \A j \in hits : i <= j][2]

\* lines 404-413: the first missing market, in list order, some alias whose
\* key is in the normalized name maps to; a list of at most one element
FallbackMatch(missing, market_name) ==
    LET hits == {i \in 1..Len(missing) :
                    \E a \in 1..Len(market_name_map) :
                        /\ Contains(market_name_map[a][1], Normalize(market_name))
                        /\ market_name_map[a][2] = missing[i]}
    IN  IF hits = {} THEN <<>>
        ELSE << missing[CHOOSE i \in hits : \A j \in hits : i <= j] >>

\* lines 386-388, 393-395, 417-419, 435-437
CoRecord(price, variety) == [modal_price |-> price, variety |-> variety]

\* lines 375-398: a crop without msamb_val
CoSoleProvider(st, state_lower, market_name, rec) ==
    IF InMaharashtra(state_lower)
    THEN [st EXCEPT !.local = Put(@, TranslateMarket(market_name), rec),
                    !.processed = @ \cup {market_name}]
    ELSE [st EXCEPT !.outstate = Put(@, market_name, rec),
                    !.processed = @ \cup {market_name}]

\* CoFallback without line 420 (missing_local_markets.remove)
CoFallback_NoRemove(st, market_name, rec) ==
    LET matched == FallbackMatch(st.missing, market_name) IN
      IF matched = <<>> THEN st
      ELSE [st EXCEPT !.local = Put(@, matched[1], rec),
                      !.processed = @ \cup {market_name}]

\* lines 402-424: a Maharashtra row while some market is missing
CoFallback(st, market_name, rec) ==
    LET matched == FallbackMatch(st.missing, market_name) IN
      IF matched = <<>> THEN st
      ELSE [st EXCEPT !.local = Put(@, matched[1], rec),
                      !.missing = SelectSeq(@, LAMBDA m : m # matched[1]),
                      !.processed = @ \cup {market_name}]

\* lines 429-440
CoOutstate(st, state_lower, market_name, rec) ==
    IF is_maharashtra(state_lower) THEN st
    ELSE [st EXCEPT !.outstate = Put(@, market_name, rec),
                    !.processed = @ \cup {market_name}]

\* lines 357-440: the effect of a row whose price cell parses, on
\* st = [local, outstate, missing, processed]
CoRowEffect(st, c, cols) ==
    IF ~CoIsDataRow(cols) THEN st
    ELSE
      LET state == CoState(cols)
          market_name == CoMarketName(cols)
          price == extract_co_price(CoPriceText(cols))
          rec == CoRecord(price, CoVariety(cols))
          state_lower == Lower(state)
      IN  IF CoSkipRow(price, market_name, st.processed) THEN st
          ELSE IF c.msamb_val = ""
          THEN CoSoleProvider(st, state_lower, market_name, rec)
          ELSE IF InMaharashtra(state_lower) /\ st.missing # <<>>
          THEN CoFallback(st, market_name, rec)
          ELSE CoOutstate(st, state_lower, market_name, rec)

\* line 362 raises (ValueError out of extract_co_price)
CoRowRaises(cols) ==
    CoIsDataRow(cols) /\ extract_co_price_raises(CoPriceText(cols))

CoSt ==
    [local |-> final_data[crop.id].local,
     outstate |-> final_data[crop.id].outstate,
     missing |-> missing_local_markets,
     processed |-> processed_markets]

\* lines 317-342, 448-450: the page cannot be had (an error caught by the
\* crop's except), or holds no row
CoNoPage ==
    /\ phase = "co" /\ pc = "crop"
    /\ missing_local_markets' = MissingAfterMsamb(crop, final_data)
    /\ \E how \in {"error", "no_table"} : last_outcome' = how
    /\ NextCrop
    /\ UNCHANGED << final_data, pc, scanned, current_trade_date, processed_markets >>

\* CoOpenPage without line 347: the names of the crop before stay
CoOpenPage_KeepProcessed ==
    /\ phase = "co" /\ pc = "crop"
    /\ missing_local_markets' = MissingAfterMsamb(crop, final_data)
    /\ processed_markets' = processed_markets
    /\ scanned' = <<>>
    /\ pc' = "rows"
    /\ UNCHANGED << final_data, phase, ci, current_trade_date, last_outcome >>

\* lines 317-350: the page is had and holds rows
CoOpenPage ==
    /\ phase = "co" /\ pc = "crop"
    /\ missing_local_markets' = MissingAfterMsamb(crop, final_data)
    /\ processed_markets' = {}
    /\ scanned' = <<>>
    /\ pc' = "rows"
    /\ UNCHANGED << final_data, phase, ci, current_trade_date, last_outcome >>

\* lines 352-440: one iteration of the row loop
CoRow ==
    /\ phase = "co" /\ pc = "rows"
    /\ Len(scanned) < CoMaxRows(crop.id)
    /\ \E cols \in CoPage(crop.id) :
         /\ ~CoRowRaises(cols)
         /\ LET st == CoRowEffect(CoSt, crop, cols) IN
              /\ final_data' = [final_data EXCEPT ![crop.id].local = st.local,
                                                  ![crop.id].outstate = st.outstate]
              /\ missing_local_markets' = st.missing
              /\ processed_markets' = st.processed
         /\ scanned' = Append(scanned, cols)
    /\ UNCHANGED << phase, ci, pc, current_trade_date, last_outcome >>

\* CoRowError without the crop's try/except: the error ends the run
CoRowError_Uncaught ==
    /\ phase = "co" /\ pc = "rows"
    /\ Len(scanned) < CoMaxRows(crop.id)
    /\ \E cols \in CoPage(crop.id) :
         /\ CoRowRaises(cols)
         /\ scanned' = Append(scanned, cols)
    /\ pc' = "crop"
    /\ last_outcome' = "error"
    /\ phase' = "done"
    /\ UNCHANGED << final_data, ci, current_trade_date, missing_local_markets,
                    processed_markets >>

\* lines 362, 448-450: the price cell of the row raises; the crop's except
\* ends the crop
CoRowError ==
    /\ phase = "co" /\ pc = "rows"
    /\ Len(scanned) < CoMaxRows(crop.id)
    /\ \E cols \in CoPage(crop.id) :
         /\ CoRowRaises(cols)
         /\ scanned' = Append(scanned, cols)
    /\ pc' = "crop"
    /\ last_outcome' = "error"
    /\ NextCrop
    /\ UNCHANGED << final_data, current_trade_date, missing_local_markets,
                    processed_markets >>

\* line 352: the rows are exhausted (a page that is had holds at least one)
CoRowsEnd ==
    /\ phase = "co" /\ pc = "rows"
    /\ Len(scanned) >= 1
    /\ pc' = "crop"
    /\ scanned' = <<>>
    /\ last_outcome' = "scanned"
    /\ NextCrop
    /\ UNCHANGED << final_data, current_trade_date, missing_local_markets,
                    processed_markets >>

(***************************************************************************)
(* The program                                                             *)
(***************************************************************************)
Init ==
    /\ final_data = EmptyMap
    /\ phase = "msamb"
    /\ ci = 1
    /\ pc = "crop"
    /\ scanned = <<>>
    /\ current_trade_date = <<>>
    /\ missing_local_markets = <<>>
    /\ processed_markets = {}
    /\ last_outcome = "none"

Next ==
    \/ MsambSkipCrop
    \/ MsambNoPage
    \/ MsambOpenPage
    \/ MsambRow
    \/ MsambRowsEnd
    \/ CoNoPage
    \/ CoOpenPage
    \/ CoRow
    \/ CoRowError
    \/ CoRowsEnd

Spec == Init /\ [][Next]_vars

(***************************************************************************)
(* Properties                                                              *)
(***************************************************************************)
Range(seq) == {seq[i] : i \in 1..Len(seq)}

Local(data, id) == data[id].local

Outstate(data, id) == data[id].outstate

\* the step consumes one more row of the page of the current crop
ConsumesRow == Len(scanned') = Len(scanned) + 1

LastRow == scanned'[Len(scanned')]

InCoRows == phase = "co" /\ pc = "rows"

InMsambRows == phase = "msamb" /\ pc = "rows"

\* the canonical markets the alias table relates a raw name to
AliasTargets(market_name) ==
    {market_name_map[a][2] : a \in {b \in 1..Len(market_name_map) :
        Contains(market_name_map[b][1], Normalize(market_name))}}

\* C1: once a key of a crop's `local` map is written, no later row of
\* either source changes its value (the first write wins), for crops with
\* and without a Primary selector.
C1_FirstWriteWins ==
    [][\A id \in DOMAIN final_data :
         \A k \in DOMAIN Local(final_data, id) :
            /\ k \in DOMAIN Local(final_data', id)
            /\ Local(final_data', id)[k] = Local(final_data, id)[k]]_vars

\* C2: for a crop with a Primary selector, the missing set is computed as
\* the canonical markets absent from `local`, and a Secondary row changes
\* `local` only by adding, for an in-scope row with price > 0, one market
\* of the missing set the row's name resolves to, which leaves the missing
\* set; no entry already present is replaced.
C2_FallbackFillsOnlyMissing ==
    [][(phase = "co" /\ crop.msamb_val # "") =>
         /\ (pc = "crop" /\ pc' = "rows") =>
               Range(missing_local_markets') =
                  Range(LOCAL_MARKETS) \ DOMAIN Local(final_data, crop.id)
         /\ \A k \in DOMAIN Local(final_data, crop.id) :
               /\ k \in DOMAIN Local(final_data', crop.id)
               /\ Local(final_data', crop.id)[k] = Local(final_data, crop.id)[k]
         /\ Local(final_data', crop.id) # Local(final_data, crop.id) =>
               /\ InCoRows /\ ConsumesRow /\ CoIsDataRow(LastRow)
               /\ is_maharashtra(Lower(CoState(LastRow)))
               /\ extract_co_price(CoPriceText(LastRow)) > 0
               /\ \E m \in Range(missing_local_markets) :
                     /\ m \in AliasTargets(CoMarketName(LastRow))
                     /\ DOMAIN Local(final_data', crop.id) =
                           DOMAIN Local(final_data, crop.id) \cup {m}
                     /\ Range(missing_local_markets') =
                           Range(missing_local_markets) \ {m}]_vars

\* a Primary entry for Pune is in place, the Secondary rows for Pune came
\* and went, and a fallback filled Rahata
C2_Witness ==
    /\ InCoRows /\ crop.id = "onion"
    /\ scanned = <<CR_MahPune, CR_MahRahataPune>>
    /\ "min_price" \in DOMAIN Local(final_data, "onion")[PUNE]
    /\ Local(final_data, "onion")[RAHATA] = [modal_price |-> 1800, variety |-> V_Local]
    /\ missing_local_markets = <<>>

\* C3: no numeric cell of a consumed row raises: the price cell of every
\* Secondary row scanned so far resolves to a number (0 when unparsable),
\* so no crop's row loop is ended by it.
C3_NumericCellsNeverRaise ==
    phase \in {"co", "done"} =>
        \A i \in 1..Len(scanned) : ~CoRowRaises(scanned[i])

\* C4: every branch classifies the region by the accepted spellings: a row
\* whose state matches one of them never writes `outstate`.
C4_OneRegionClassification ==
    [][(InCoRows /\ ConsumesRow /\ CoIsDataRow(LastRow)
          /\ is_maharashtra(Lower(CoState(LastRow)))) =>
         Outstate(final_data', crop.id) = Outstate(final_data, crop.id)]_vars

\* C5: for a crop without a Primary selector, every scanned in-scope row
\* with price > 0 is in `local` under its translated (or literal) name and
\* every scanned out-of-scope row with price > 0 is in `outstate` under its
\* literal name, whatever rows preceded it.
C5_EverySoleProviderRowRecorded ==
    (InCoRows /\ crop.msamb_val = "") =>
        \A i \in 1..Len(scanned) :
            LET cols == scanned[i]
                rec == CoRecord(extract_co_price(CoPriceText(cols)), CoVariety(cols))
                name == CoMarketName(cols)
            IN  (CoIsDataRow(cols) /\ rec.modal_price > 0) =>
                    IF is_maharashtra(Lower(CoState(cols)))
                    THEN /\ TranslateMarket(name) \in DOMAIN Local(final_data, crop.id)
                         /\ Local(final_data, crop.id)[TranslateMarket(name)] = rec
                    ELSE /\ name \in DOMAIN Outstate(final_data, crop.id)
                         /\ Outstate(final_data, crop.id)[name] = rec

\* C6: for a crop with a Primary selector, an out-of-scope row with
\* price > 0 whose name is not yet a key of `outstate` is recorded under
\* that name, and no `outstate` entry is ever overwritten.
C6_OutstateFirstOccurrence ==
    [][(phase = "co" /\ crop.msamb_val # "") =>
         /\ \A k \in DOMAIN Outstate(final_data, crop.id) :
               /\ k \in DOMAIN Outstate(final_data', crop.id)
               /\ Outstate(final_data', crop.id)[k] = Outstate(final_data, crop.id)[k]
         /\ (InCoRows /\ pc' = "rows" /\ ConsumesRow /\ CoIsDataRow(LastRow)
               /\ ~is_maharashtra(Lower(CoState(LastRow)))
               /\ extract_co_price(CoPriceText(LastRow)) > 0
               /\ CoMarketName(LastRow) \notin DOMAIN Outstate(final_data, crop.id)) =>
               /\ CoMarketName(LastRow) \in DOMAIN Outstate(final_data', crop.id)
               /\ Outstate(final_data', crop.id)[CoMarketName(LastRow)] =
                     CoRecord(extract_co_price(CoPriceText(LastRow)),
                              CoVariety(LastRow))]_vars

HasSelector(id) == \E i \in 1..Len(CROPS) : CROPS[i].id = id /\ CROPS[i].msamb_val # ""

PrimaryFields ==
    {"modal_price", "min_price", "max_price", "arrival", "variety", "trade_date"}

SecondaryFields == {"modal_price", "variety"}

\* C7: for a crop with a Primary selector, an entry a Primary row writes
\* holds the modal, min, max, arrival, variety of that row (columns 7, 5, 6,
\* 4, 2) and the active trade date; an entry a Secondary row writes to
\* `local` or `outstate` holds the modal price and variety of that row and
\* nothing else; entries stay as written.
C7_RecordFieldsBySource ==
    [][/\ (InMsambRows /\ ConsumesRow) =>
            \A k \in DOMAIN Local(final_data', crop.id) \ DOMAIN Local(final_data, crop.id) :
                Local(final_data', crop.id)[k] =
                    [modal_price |-> clean_price(LastRow.cols[7]),
                     min_price   |-> clean_price(LastRow.cols[5]),
                     max_price   |-> clean_price(LastRow.cols[6]),
                     arrival     |-> clean_price(LastRow.cols[4]),
                     variety     |-> Strip(LastRow.cols[2]),
                     trade_date  |-> current_trade_date]
       /\ (InCoRows /\ pc' = "rows" /\ ConsumesRow /\ crop.msamb_val # "") =>
            /\ \A k \in DOMAIN Local(final_data', crop.id) \ DOMAIN Local(final_data, crop.id) :
                  Local(final_data', crop.id)[k] =
                      [modal_price |-> extract_co_price(Strip(LastRow[9])),
                       variety |-> Strip(LastRow[3])]
            /\ \A k \in DOMAIN Outstate(final_data', crop.id) \ DOMAIN Outstate(final_data, crop.id) :
                  Outstate(final_data', crop.id)[k] =
                      [modal_price |-> extract_co_price(Strip(LastRow[9])),
                       variety |-> Strip(LastRow[3])]
       /\ \A id \in DOMAIN final_data :
            HasSelector(id) =>
              /\ \A k \in DOMAIN Local(final_data, id) :
                    /\ k \in DOMAIN Local(final_data', id)
                    /\ Local(final_data', id)[k] = Local(final_data, id)[k]
              /\ \A k \in DOMAIN Outstate(final_data, id) :
                    /\ k \in DOMAIN Outstate(final_data', id)
                    /\ Outstate(final_data', id)[k] = Outstate(final_data, id)[k]
              /\ \A k \in DOMAIN Local(final_data', id) :
                    DOMAIN Local(final_data', id)[k] =
                       IF \/ phase = "msamb"
                          \/ /\ k \in DOMAIN Local(final_data, id)
                             /\ "min_price" \in DOMAIN Local(final_data, id)[k]
                       THEN PrimaryFields ELSE SecondaryFields
              /\ \A k \in DOMAIN Outstate(final_data', id) :
                    DOMAIN Outstate(final_data', id)[k] = SecondaryFields]_vars

\* reconciliation is over; onion holds a Primary entry, a fallback entry and
\* an outstate entry
C7_Witness ==
    /\ phase = "done"
    /\ DOMAIN Local(final_data, "onion") = {PUNE, RAHATA}
    /\ DOMAIN Outstate(final_data, "onion") = {MN_Pune}
    /\ Local(final_data, "onion")[PUNE] =
          [modal_price |-> 1800, min_price |-> 1500, max_price |-> 2000,
           arrival |-> 120, variety |-> V_Red, trade_date |-> DateText2]
    /\ Local(final_data, "onion")[RAHATA] = [modal_price |-> 1800, variety |-> V_Local]
    /\ Outstate(final_data, "onion")[MN_Pune] = [modal_price |-> 1800, variety |-> V_Local]

\* the trimmed text of the last date-marker row (one cell, with colspan) of
\* a row list; "N/A" when it holds none
LastMarker(rows) ==
    LET idx == {i \in 1..Len(rows) : Len(rows[i].cols) = 1 /\ rows[i].colspan}
    IN  IF idx = {} THEN NA
        ELSE Strip(rows[CHOOSE i \in idx : \A j \in idx : j <= i].cols[1])

\* C8: in a crop's Primary row stream the active trade date is the text of
\* the most recent date-marker row of that stream ("N/A" before the first,
\* whatever the crop before left), it changes only at date-marker rows, and
\* a record written by a data row stores the date active at that row.
C8_TradeDateFromLastMarker ==
    [][/\ (phase' = "msamb" /\ pc' = "rows") =>
            current_trade_date' = LastMarker(scanned')
       /\ (InMsambRows /\ ConsumesRow) =>
            /\ current_trade_date' # current_trade_date =>
                  (Len(LastRow.cols) = 1 /\ LastRow.colspan)
            /\ \A k \in DOMAIN Local(final_data', crop.id) \ DOMAIN Local(final_data, crop.id) :
                  Local(final_data', crop.id)[k].trade_date = LastMarker(scanned)]_vars

\* onion stored a record under its second marker; wheat, scanned next with
\* no marker on its page, stored one under "N/A"
C8_Witness ==
    /\ InMsambRows /\ crop.id = "wheat"
    /\ scanned = <<MR_PuneRahataB>>
    /\ PUNE \in DOMAIN Local(final_data, "onion")
    /\ RAHATA \in DOMAIN Local(final_data, "wheat")
    /\ Local(final_data, "onion")[PUNE].trade_date = DateText2
    /\ Local(final_data, "wheat")[RAHATA].trade_date = NA

\* C9: a crop/source that ends in a failure (no table, or an error) keeps
\* every entry written so far, and the loop goes on with the next crop (or
\* the next part after the last crop); when the run is done final_data
\* holds one result for every configured crop.
C9_FailureStaysLocal ==
    [][/\ phase' = "done" => DOMAIN final_data' = CropIds
       /\ phase' = "done" => (phase = "done" \/ (phase = "co" /\ ci = Len(CROPS)))
       /\ (last_outcome' \in {"error", "no_table"} /\ pc' = "crop") =>
            /\ \A id \in DOMAIN final_data : final_data'[id] = final_data[id]
            /\ pc' = "crop"
            /\ IF ci < Len(CROPS)
               THEN ci' = ci + 1 /\ phase' = phase
               ELSE ci' = 1 /\ phase' = (IF phase = "msamb" THEN "co" ELSE "done")]_vars

\* onion's Secondary scan wrote an outstate entry and was then ended by an
\* error; the entry is there and the loop stands at wheat
C9_Witness ==
    /\ phase = "co" /\ pc = "crop" /\ crop.id = "wheat"
    /\ last_outcome = "error"
    /\ scanned = <<CR_GoaPune, CR_GoaNoDigit>>
    /\ MN_Pune \in DOMAIN Outstate(final_data, "onion")

\* the modal price a row carries (0 when the cell does not parse)
ModalOfLastRow ==
    IF phase = "msamb" THEN clean_price(LastRow.cols[7])
    ELSE extract_co_price(Strip(LastRow[9]))

IsDataShape ==
    IF phase = "msamb" THEN Len(LastRow.cols) = 7 ELSE Len(LastRow) >= 9

\* C10: every stored record has modal price > 0, and a data row whose modal
\* price is 0 or less changes neither the maps nor the missing set nor the
\* set of processed names.
C10_NoZeroPriceRecord ==
    [][/\ \A id \in DOMAIN final_data' :
            /\ \A k \in DOMAIN Local(final_data', id) :
                  Local(final_data', id)[k].modal_price > 0
            /\ \A k \in DOMAIN Outstate(final_data', id) :
                  Outstate(final_data', id)[k].modal_price > 0
       /\ (pc = "rows" /\ pc' = "rows" /\ ConsumesRow /\ IsDataShape
             /\ ModalOfLastRow <= 0) =>
            UNCHANGED << final_data, missing_local_markets, processed_markets >>]_vars

\* a Pune row without a price came first; the Pune row after it filled
\* the missing market
C10_Witness ==
    /\ InCoRows /\ crop.id = "onion"
    /\ scanned = <<CR_MahPuneNoPrice, CR_MahPune>>
    /\ Local(final_data, "onion") = (PUNE :> [modal_price |-> 2500, variety |-> V_Red])

\* C12: a Primary data row with modal price > 0 goes to the first canonical
\* market, in list order, whose name is in the raw market name, and to no
\* other: when that market is already in `local` the row is dropped and no
\* later canonical market is tried; a row that matches none, or whose modal
\* price is not > 0, writes nothing.
C12_FirstCanonicalMatch ==
    [][(InMsambRows /\ ConsumesRow /\ MsambIsDataRow(LastRow)) =>
         LET name == Strip(LastRow.cols[1])
             modal == clean_price(Strip(LastRow.cols[7]))
             before == Local(final_data, crop.id)
             after == Local(final_data', crop.id)
             matching == {i \in 1..Len(LOCAL_MARKETS) :
                             Contains(LOCAL_MARKETS[i], name)}
         IN  IF modal > 0 /\ matching # {}
             THEN LET first == LOCAL_MARKETS[CHOOSE i \in matching :
                                                \A j \in matching : i <= j]
                  IN  IF first \in DOMAIN before
                      THEN after = before
                      ELSE /\ DOMAIN after = DOMAIN before \cup {first}
                           /\ \A k \in DOMAIN before : after[k] = before[k]
                           /\ after[first].modal_price = modal
             ELSE after = before]_vars

\* two rows named after both Pune and Rahata: the first went to Rahata, the
\* second was dropped and Pune stays empty
C12_Witness ==
    /\ InMsambRows /\ crop.id = "wheat"
    /\ scanned = <<MR_PuneRahataB, MR_PuneRahataB>>
    /\ DOMAIN Local(final_data, "wheat") = {RAHATA}

\* C13 as stated: the crops are processed one after the other, so while a
\* row of a crop is processed no later crop holds a record yet.
C13_CropByCrop ==
    [][ConsumesRow =>
         \A j \in (ci + 1)..Len(CROPS) :
            CROPS[j].id \in DOMAIN final_data =>
               /\ Local(final_data, CROPS[j].id) = EmptyMap
               /\ Outstate(final_data, CROPS[j].id) = EmptyMap]_vars

\* C13, amended: the processing is source by source.  The Primary pass runs
\* over all crops in configured order and only then the Secondary pass runs
\* over all crops in configured order; a pass moves to the next crop only
\* when the rows of the crop before are done with, the rows of a page are
\* taken in page order, and no Secondary record exists while the Primary
\* pass runs.
C13_SourceBySource ==
    [][/\ phase' # phase =>
            \/ phase = "msamb" /\ phase' = "co" /\ ci = Len(CROPS) /\ ci' = 1
            \/ phase = "co" /\ phase' = "done" /\ ci = Len(CROPS)
       /\ phase' = phase => ci' \in {ci, ci + 1}
       /\ (ci' # ci \/ phase' # phase) => pc' = "crop"
       /\ ConsumesRow =>
            /\ pc = "rows" /\ phase \in {"msamb", "co"}
            /\ SubSeq(scanned', 1, Len(scanned)) = scanned
       /\ phase = "msamb" =>
            \A id \in DOMAIN final_data' :
               /\ Outstate(final_data', id) = EmptyMap
               /\ \A k \in DOMAIN Local(final_data', id) :
                     "min_price" \in DOMAIN Local(final_data', id)[k]]_vars

\* a Secondary row of the first crop is processed after a Primary row of the
\* second crop left its record
C13_Witness ==
    /\ InCoRows /\ crop.id = "onion"
    /\ scanned = <<CR_GoaPune>>
    /\ RAHATA \in DOMAIN Local(final_data, "wheat")

\* C14: a row of one crop leaves the maps of every other crop as they were,
\* and the working state of a crop starts fresh: the trade date at "N/A" and
\* the maps empty when its Primary rows begin, the processed names empty and
\* the missing set computed from its own `local` when its Secondary rows
\* begin.
C14_CropFrame ==
    [][/\ ConsumesRow =>
            \A id \in DOMAIN final_data \ {crop.id} :
               /\ id \in DOMAIN final_data'
               /\ final_data'[id] = final_data[id]
       /\ (phase = "msamb" /\ pc = "crop" /\ pc' = "rows") =>
            /\ current_trade_date' = NA
            /\ Local(final_data', crop.id) = EmptyMap
            /\ Outstate(final_data', crop.id) = EmptyMap
       /\ (phase = "co" /\ pc = "crop" /\ pc' = "rows") =>
            /\ processed_markets' = {}
            /\ Range(missing_local_markets') =
                  IF crop.msamb_val # ""
                  THEN Range(LOCAL_MARKETS) \ DOMAIN Local(final_data, crop.id)
                  ELSE {}]_vars

\* the name "Pune" was seen for the first crop, which holds Pune, and the
\* last crop still wrote its own Pune from a row of that name
C14_Witness ==
    /\ InCoRows /\ crop.id = "silk-cocoonbh-double-hybr"
    /\ scanned = <<CR_MahPune>>
    /\ MN_Pune \in DOMAIN Outstate(final_data, "onion")
    /\ PUNE \in DOMAIN Local(final_data, "onion")
    /\ PUNE \in DOMAIN Local(final_data, "silk-cocoonbh-double-hybr")

\* the position of the run: the pass, then the crop, then the row
Position ==
    LET passNo == IF phase = "msamb" THEN 0 ELSE IF phase = "co" THEN 1 ELSE 2
        perCrop == MaxMsambRows + MaxCoRows + MaxOtherRows + 2
        inCrop == IF pc = "rows" THEN 1 + Len(scanned) ELSE 0
    IN  (passNo * (Len(CROPS) + 1) + ci) * perCrop + inCrop

\* some step of Next is enabled
StepAtHand ==
    \/ ENABLED MsambSkipCrop
    \/ ENABLED MsambNoPage
    \/ ENABLED MsambRowsEnd
    \/ ENABLED CoNoPage
    \/ ENABLED CoRowsEnd
    \/ ENABLED CoRow
    \/ ENABLED CoRowError

\* C15: the run ends with every configured crop reconciled: before the end
\* a next step is always there, every step moves the run forward in the
\* finite order of passes, crops and rows, and at the end every crop has its
\* result.  A crop without a Primary selector never processes a Primary row
\* and begins its Secondary pass with `local` empty; the missing set is
\* computed only in the Secondary pass, which no Primary row follows.
C15_EveryCropReconciled ==
    /\ [](phase = "done" \/ StepAtHand)
    /\ [](phase = "done" => DOMAIN final_data = CropIds)
    /\ [][/\ Position' > Position
          /\ (phase = "msamb" /\ crop.msamb_val = "") =>
               /\ pc = "crop" /\ pc' = "crop"
               /\ ~ConsumesRow
          /\ (phase = "co" /\ pc = "crop" /\ crop.msamb_val = "") =>
               Local(final_data, crop.id) = EmptyMap
          /\ missing_local_markets' # missing_local_markets => phase = "co"
          /\ phase = "co" => phase' # "msamb"]_vars

\* the run is over; the crop without a selector got its local market from
\* the Secondary source, the first crop holds both canonical markets
C15_Witness ==
    /\ phase = "done"
    /\ DOMAIN final_data = CropIds
    /\ DOMAIN Local(final_data, "silk-cocoonbh-double-hybr") = {PUNE}
    /\ DOMAIN Local(final_data, "onion") = {PUNE, RAHATA}

\* C16: a Primary row that is neither one colspan cell nor seven cells, and
\* a Secondary row of fewer than nine cells, is skipped: the maps, the trade
\* date, the missing set and the processed names stay as they were and the
\* row loop goes on.
C16_MalformedRowsSkipped ==
    [][ConsumesRow =>
         LET malformed ==
               \/ /\ phase = "msamb"
                  /\ ~(Len(LastRow.cols) = 1 /\ LastRow.colspan)
                  /\ Len(LastRow.cols) # 7
               \/ /\ phase = "co"
                  /\ Len(LastRow) < 9
         IN  malformed =>
               /\ UNCHANGED << final_data, current_trade_date,
                               missing_local_markets, processed_markets,
                               last_outcome >>
               /\ pc' = "rows"]_vars

\* a lone cell without colspan and a colspan row of three cells went by; the
\* trade date is still "N/A" and nothing is recorded
C16_Witness ==
    /\ InMsambRows /\ crop.id = "wheat"
    /\ scanned = <<MR_OneCell, MR_ThreeCells>>
    /\ current_trade_date = NA
    /\ Local(final_data, "wheat") = EmptyMap

\* C17: during the Secondary rows of a crop with a Primary selector the
\* missing set and the keys of `local` are disjoint and together are the
\* canonical list, before and after every step, and the missing set only
\* shrinks.
C17_MissingPartition ==
    [][(InCoRows /\ crop.msamb_val # "") =>
         LET Partition(l, m) ==
               /\ Range(m) \cap DOMAIN l = {}
               /\ Range(m) \cup DOMAIN l = Range(LOCAL_MARKETS)
         IN  /\ Partition(Local(final_data, crop.id), missing_local_markets)
             /\ Partition(Local(final_data', crop.id), missing_local_markets')
             /\ Range(missing_local_markets') \subseteq Range(missing_local_markets)]_vars

\* Pune came from the Primary source, Rahata is missing, and a Secondary row
\* that resolves to Pune alone went by
C17_Witness ==
    /\ InCoRows /\ crop.id = "onion"
    /\ scanned = <<CR_MahPuneAPMC>>
    /\ DOMAIN Local(final_data, "onion") = {PUNE}
    /\ missing_local_markets = <<RAHATA>>

\* C18: the fallback path, with every canonical market missing, writes a row
\* under the canonical market the sole-provider path resolves its name to.
C18_OneAliasResolution ==
    [][(InCoRows /\ ConsumesRow /\ crop.msamb_val # ""
          /\ Range(missing_local_markets) = Range(LOCAL_MARKETS)
          /\ CoIsDataRow(LastRow)) =>
         DOMAIN Local(final_data', crop.id) \ DOMAIN Local(final_data, crop.id)
            \subseteq {TranslateMarket(CoMarketName(LastRow))}]_vars

=============================================================================
